---- MODULE Spec2Model ----
(***************************************************************************)
(* A model of keep (src/src/main.rs): a terminal task manager with a       *)
(* date-indexed task list and one free-form note buffer.                   *)
(*                                                                         *)
(* Text is modelled the way Rust stores it: a String is a sequence of      *)
(* UTF-8 bytes, and a char is the sequence of the bytes that encode it.    *)
(* Offsets (notes_cursor) and indices (selected_task, task indices) are    *)
(* 0-based as in the source; TLA+ sequences are 1-based, so element i of   *)
(* the source is s[i + 1] here.  Option<T> is modelled as a sequence of    *)
(* length at most one: None is << >>, Some(v) is <<v>>.                    *)
(***************************************************************************)
EXTENDS Integers, Sequences, FiniteSets

VARIABLES
    tasks,              \* data.tasks: Vec<Task>
    notes,              \* data.notes: String
    current_date,       \* app.current_date
    selected_task,      \* app.selected_task
    input_mode,         \* app.input_mode
    input_buffer,       \* app.input_buffer
    start_time_buffer,  \* app.start_time_buffer
    end_time_buffer,    \* app.end_time_buffer
    time_input_field,   \* app.time_input_field
    editing_task_idx,   \* app.editing_task_idx: Option<usize>
    notes_buffer,       \* app.notes_buffer
    notes_cursor,       \* app.notes_cursor
    should_quit,        \* app.should_quit
    view_mode,          \* app.view_mode
    panicked,           \* the process aborted on a Rust panic
    disk,               \* the store last written to ~/.keep_tasks.json
    last_save,          \* what the last key event did with AppData::save
    key                 \* the key event handle_input handled last

vars == <<tasks, notes, current_date, selected_task, input_mode, input_buffer,
          start_time_buffer, end_time_buffer, time_input_field,
          editing_task_idx, notes_buffer, notes_cursor, should_quit,
          view_mode, panicked, disk, last_save, key>>

taskVars == <<tasks, current_date, selected_task, input_mode, input_buffer,
              start_time_buffer, end_time_buffer, time_input_field,
              editing_task_idx>>

(***************************************************************************)
(* Bounds of the model.                                                    *)
(***************************************************************************)
\* Longest note buffer, in bytes, the note specification types.
MaxNotesLen == 4
\* Last calendar date; dates are 0..MaxDate and succ/pred saturate at the ends.
MaxDate == 2

(***************************************************************************)
(* Option<T>.                                                              *)
(***************************************************************************)
None == << >>

Some(v) == <<v>>

IsSome(o) == Len(o) = 1

Unwrap(o) == o[1]

Min(a, b) == IF a <= b THEN a ELSE b

(***************************************************************************)
(* Characters and strings.                                                 *)
(***************************************************************************)
\* '\n', one byte.
NewlineChar == <<10>>

\* 'a', one byte.
CharA == <<97>>

\* 'q', one byte.
CharQ == <<113>>

\* ' ', one byte.
CharSpace == <<32>>

\* '1', one byte.
CharOne == <<49>>

\* ':', one byte.
CharColon == <<58>>

\* 'é' (U+00E9), two bytes in UTF-8.
CharEAcute == <<195, 169>>

\* char::len_utf8
len_utf8(c) == Len(c)

\* A UTF-8 continuation byte (10xxxxxx).
IsContinuationByte(b) == b >= 128 /\ b < 192

\* str::is_char_boundary
is_char_boundary(s, i) ==
    \/ i = 0
    \/ i = Len(s)
    \/ i > 0 /\ i < Len(s) /\ ~IsContinuationByte(s[i + 1])

\* The width in bytes of the character whose first byte is b.
Utf8Width(b) ==
    IF b < 128 THEN 1 ELSE IF b < 224 THEN 2 ELSE IF b < 240 THEN 3 ELSE 4

\* &s[..i]
SliceTo(s, i) == SubSeq(s, 1, i)

\* &s[i..]
SliceFrom(s, i) == SubSeq(s, i + 1, Len(s))

\* String::insert(i, c) on a char boundary i: the bytes of c go in at offset i.
StringInsert(s, i, c) == SliceTo(s, i) \o c \o SliceFrom(s, i)

\* String::remove(i) on a char boundary i < len: the whole character goes.
StringRemove_one_byte(s, i) == SubSeq(s, 1, i) \o SubSeq(s, i + 2, Len(s))

StringRemove(s, i) == SliceTo(s, i) \o SliceFrom(s, i + Utf8Width(s[i + 1]))

\* str::rfind('\n'): the offset of the last newline byte, if any.
rfind_newline(s) ==
    LET at == {p \in 0..(Len(s) - 1) : s[p + 1] = 10}
    IN  IF at = {} THEN None
        ELSE Some(CHOOSE p \in at : \A r \in at : r <= p)

\* str::find('\n'): the offset of the first newline byte, if any.
find_newline(s) ==
    LET at == {p \in 0..(Len(s) - 1) : s[p + 1] = 10}
    IN  IF at = {} THEN None
        ELSE Some(CHOOSE p \in at : \A r \in at : p <= r)

\* char::is_whitespace, for the one-byte characters.
IsWhitespace(b) == b = 32 \/ (b >= 9 /\ b <= 13)

\* str::trim: the slice without its leading and trailing whitespace.
trim(s) ==
    LET keep == {i \in 1..Len(s) : ~IsWhitespace(s[i])}
    IN  IF keep = {} THEN << >>
        ELSE SubSeq(s, CHOOSE i \in keep : \A j \in keep : i <= j,
                       CHOOSE i \in keep : \A j \in keep : j <= i)

\* String::push(c)
push(s, c) == s \o c

\* String::pop: the last character goes, whole; nothing on an empty string.
pop(s) ==
    IF s = << >> THEN s
    ELSE LET starts == {i \in 0..(Len(s) - 1) : is_char_boundary(s, i)}
         IN  SliceTo(s, CHOOSE i \in starts : \A j \in starts : j <= i)

\* The prefixes of the texts of S.
Prefixes(S) == UNION {{SubSeq(t, 1, n) : n \in 0..Len(t)} : t \in S}

\* char::is_ascii_digit
is_ascii_digit(b) == b >= 48 /\ b <= 57

(***************************************************************************)
(* Times of day are minutes since midnight (NaiveTime with seconds 0).     *)
(***************************************************************************)
\* NaiveTime::format("%H:%M"): both numbers zero-padded to two digits.
format_time(t) ==
    LET h == t \div 60
        m == t % 60
    IN  <<48 + (h \div 10), 48 + (h % 10), 58, 48 + (m \div 10), 48 + (m % 10)>>

\* chrono's scan::number(s, 1, 2): how many digits a numeric item consumes,
\* at least one and at most two; 0 when s does not start with a digit.
ScanDigits(s) ==
    IF Len(s) >= 1 /\ is_ascii_digit(s[1])
    THEN IF Len(s) >= 2 /\ is_ascii_digit(s[2]) THEN 2 ELSE 1
    ELSE 0

\* The value of the first n (1 or 2) digits of s.
ScanValue(s, n) ==
    IF n = 1 THEN s[1] - 48 ELSE (s[1] - 48) * 10 + (s[2] - 48)

\* parse_time taking only zero-padded numbers: two digits, ':', two digits.
parse_time_padded(s) ==
    IF /\ Len(s) = 5
       /\ \A i \in {1, 2, 4, 5} : is_ascii_digit(s[i])
       /\ s[3] = 58
       /\ ScanValue(s, 2) <= 23
       /\ ScanValue(SubSeq(s, 4, 5), 2) <= 59
    THEN Some(ScanValue(s, 2) * 60 + ScanValue(SubSeq(s, 4, 5), 2))
    ELSE None

\* NaiveTime::parse_from_str(s, "%H:%M").ok(): the items are the number %H
\* (0..=23), the literal ':' and the number %M (0..=59); nothing may follow.
parse_time(s) ==
    LET n1 == ScanDigits(s)
    IN  IF n1 = 0 THEN None
        ELSE LET hour == ScanValue(s, n1)
                 s1 == SubSeq(s, n1 + 1, Len(s))
             IN  IF hour > 23 \/ Len(s1) = 0 \/ s1[1] # 58 THEN None
                 ELSE LET s2 == Tail(s1)
                          n2 == ScanDigits(s2)
                      IN  IF n2 = 0 THEN None
                          ELSE IF ScanValue(s2, n2) > 59 \/ Len(s2) > n2 THEN None
                          ELSE Some(hour * 60 + ScanValue(s2, n2))

\* add_task: a time buffer that is blank after trim gives None, else the parse.
time_field(buf) ==
    IF trim(buf) # << >> THEN parse_time(trim(buf)) ELSE None

(***************************************************************************)
(* Tasks and the derived views.                                            *)
(***************************************************************************)
Task(content, completed, date, start_time, end_time) ==
    [content |-> content, completed |-> completed, date |-> date,
     start_time |-> start_time, end_time |-> end_time]

\* iter().enumerate(): the pairs (index, task), indices from 0.
Enumerate(ts) == [i \in 1..Len(ts) |-> <<i - 1, ts[i]>>]

\* tasks_for_date that also takes the tasks without a date.
tasks_for_date_or_undated(ts, date) ==
    SelectSeq(Enumerate(ts), LAMBDA p : p[2].date \in {None, Some(date)})

\* AppData::tasks_for_date
tasks_for_date(ts, date) ==
    SelectSeq(Enumerate(ts), LAMBDA p : p[2].date = Some(date))

\* overdue_tasks that also takes the completed tasks.
overdue_tasks_with_completed(ts, date) ==
    SelectSeq(Enumerate(ts),
              LAMBDA p : IF IsSome(p[2].date) THEN Unwrap(p[2].date) < date ELSE FALSE)

\* AppData::overdue_tasks
overdue_tasks(ts, date) ==
    SelectSeq(Enumerate(ts),
              LAMBDA p : IF IsSome(p[2].date)
                         THEN Unwrap(p[2].date) < date /\ ~p[2].completed
                         ELSE FALSE)

\* start_cmp with the tasks without a start time first.
start_cmp_untimed_first(a, b) ==
    LET ta == a[2].start_time
        tb == b[2].start_time
    IN  IF IsSome(ta) /\ IsSome(tb)
        THEN IF Unwrap(ta) < Unwrap(tb) THEN "Less"
             ELSE IF Unwrap(ta) > Unwrap(tb) THEN "Greater" ELSE "Equal"
        ELSE IF IsSome(ta) THEN "Greater"
        ELSE IF IsSome(tb) THEN "Less"
        ELSE "Equal"

\* The comparator of current_tasks, on two (index, task) pairs.
start_cmp(a, b) ==
    LET ta == a[2].start_time
        tb == b[2].start_time
    IN  IF IsSome(ta) /\ IsSome(tb)
        THEN IF Unwrap(ta) < Unwrap(tb) THEN "Less"
             ELSE IF Unwrap(ta) > Unwrap(tb) THEN "Greater" ELSE "Equal"
        ELSE IF IsSome(ta) THEN "Less"
        ELSE IF IsSome(tb) THEN "Greater"
        ELSE "Equal"

\* x put into the sorted sequence s before the first element greater than it:
\* after every element equal to it, as a stable sort leaves it.
InsertStable(s, x) ==
    LET greater == {i \in 1..Len(s) : start_cmp(s[i], x) = "Greater"}
        at == IF greater = {} THEN Len(s) + 1
              ELSE CHOOSE i \in greater : \A j \in greater : i <= j
    IN  SubSeq(s, 1, at - 1) \o <<x>> \o SubSeq(s, at, Len(s))

\* slice::sort_by (a stable sort) with start_cmp.
RECURSIVE sort_by(_)
sort_by(s) ==
    IF s = << >> THEN << >>
    ELSE InsertStable(sort_by(SubSeq(s, 1, Len(s) - 1)), s[Len(s)])

\* App::current_tasks
current_tasks(view, ts, date) ==
    sort_by(IF view = "Scheduled" THEN tasks_for_date(ts, date) ELSE << >>)

\* Vec::get(i)
Get(s, i) == IF i < Len(s) THEN Some(s[i + 1]) ELSE None

\* The row current_tasks().get(selected_task) of the state.
SelectedRow == Get(current_tasks(view_mode, tasks, current_date), selected_task)

(***************************************************************************)
(* Key events (crossterm KeyEvent): a code and, for KeyCode::Char, the     *)
(* character.                                                              *)
(***************************************************************************)
Key(code) == [code |-> code, ch |-> << >>]

KeyChar(c) == [code |-> "Char", ch |-> c]

\* Ctrl+S: KeyCode::Char('s') with KeyModifiers::CONTROL.
KeyCtrlS == [code |-> "CtrlS", ch |-> <<115>>]

\* The loop of run_app draws and handles a key until should_quit or a panic.
Running == ~should_quit /\ ~panicked

\* terminal.draw in run_app panics: the Notes view splits the buffer at the
\* cursor (str::split_at), which needs a char boundary.  (The overdue sidebar
\* slices task.content[..22] only for contents above 25 bytes, longer than
\* any content of this model.)
DrawPanics ==
    /\ view_mode = "Notes"
    /\ notes_buffer # << >>
    /\ ~is_char_boundary(notes_buffer, Min(notes_cursor, Len(notes_buffer)))

\* One turn of the loop that gets as far as the key: the draw succeeds,
\* event::read returns the key press k, and handle_input runs on it.
Handles(k) == Running /\ ~DrawPanics /\ key' = k

\* The first branch of handle_input.
InNotesBranch == view_mode = "Notes" /\ ~input_mode

\* The second branch of handle_input.
InInputBranch == ~InNotesBranch /\ input_mode

\* The last branch of handle_input.
InNormalBranch == ~InNotesBranch /\ ~input_mode

(***************************************************************************)
(* Persistence: AppData::save writes the whole store; every call site      *)
(* drops the result (let _ = ...).                                         *)
(***************************************************************************)
Store(t, n) == [tasks |-> t, notes |-> n, whole |-> TRUE]

\* The file after a write that failed part way: std::fs::write truncates the
\* file before it writes, so what is left is no store.
Torn == [tasks |-> << >>, notes |-> << >>, whole |-> FALSE]

\* AppData::save that writes the store as it was before the key.
Save_before_mutation(ok, t, n) ==
    /\ disk' \in (IF ok THEN {Store(tasks, notes)} ELSE {disk, Torn})
    /\ last_save' = IF ok THEN "ok" ELSE "failed"

\* AppData::save on the store (t, n), succeeding iff ok.  A failure leaves
\* the file as it was (it could not be opened) or torn (the write failed).
Save(ok, t, n) ==
    /\ disk' \in (IF ok THEN {Store(t, n)} ELSE {disk, Torn})
    /\ last_save' = IF ok THEN "ok" ELSE "failed"

\* A key event that never calls AppData::save.
NoSave == disk' = disk /\ last_save' = "none"

\* A Rust panic: the process unwinds out of main with the state as it is.
Panic == panicked' = TRUE

(***************************************************************************)
(* The note cursor: the arithmetic of each arm of the Notes branch, for a  *)
(* cursor the slices accept (a char boundary).                             *)
(***************************************************************************)
\* up_cursor with the first line sending the cursor to the line start.
up_cursor_to_line_start(buf, cur) ==
    LET found == rfind_newline(SliceTo(buf, cur))
    IN  IF IsSome(found)
        THEN LET prev_newline == Unwrap(found)
                 col == cur - (prev_newline + 1)
                 r == rfind_newline(SliceTo(buf, prev_newline))
                 prev_line_start == IF IsSome(r) THEN Unwrap(r) + 1 ELSE 0
             IN  prev_line_start + Min(col, prev_newline - prev_line_start)
        ELSE 0

\* up_cursor without the clamp of the column to the previous line's length.
up_cursor_unclamped(buf, cur) ==
    LET found == rfind_newline(SliceTo(buf, cur))
    IN  IF IsSome(found)
        THEN LET prev_newline == Unwrap(found)
                 col == cur - (prev_newline + 1)
                 r == rfind_newline(SliceTo(buf, prev_newline))
                 prev_line_start == IF IsSome(r) THEN Unwrap(r) + 1 ELSE 0
             IN  prev_line_start + col
        ELSE cur

\* KeyCode::Up
up_cursor(buf, cur) ==
    LET before_cursor == SliceTo(buf, cur)
        found == rfind_newline(before_cursor)
    IN  IF IsSome(found)
        THEN LET prev_newline == Unwrap(found)
                 current_line_start == prev_newline + 1
                 col == cur - current_line_start
             IN  IF prev_newline > 0
                 THEN LET before_prev == SliceTo(buf, prev_newline)
                          r == rfind_newline(before_prev)
                          prev_line_start == IF IsSome(r) THEN Unwrap(r) + 1 ELSE 0
                          prev_line_len == prev_newline - prev_line_start
                      IN  prev_line_start + Min(col, prev_line_len)
                 ELSE Min(col, prev_newline)
        ELSE cur

\* KeyCode::Down
down_cursor(buf, cur) ==
    LET after_cursor == SliceFrom(buf, cur)
        found == find_newline(after_cursor)
    IN  IF IsSome(found)
        THEN LET next_newline_rel == Unwrap(found)
                 r == rfind_newline(SliceTo(buf, cur))
                 current_line_start == IF IsSome(r) THEN Unwrap(r) + 1 ELSE 0
                 col == cur - current_line_start
                 next_line_start == cur + next_newline_rel + 1
             IN  IF next_line_start < Len(buf)
                 THEN LET remaining == SliceFrom(buf, next_line_start)
                          f == find_newline(remaining)
                          next_line_len == IF IsSome(f) THEN Unwrap(f) ELSE Len(remaining)
                      IN  next_line_start + Min(col, next_line_len)
                 ELSE cur
        ELSE cur

\* home_cursor that stops on the newline, not after it.
home_cursor_on_newline(buf, cur) ==
    LET r == rfind_newline(SliceTo(buf, cur))
    IN  IF IsSome(r) THEN Unwrap(r) ELSE 0

\* KeyCode::Home
home_cursor(buf, cur) ==
    LET r == rfind_newline(SliceTo(buf, cur))
    IN  IF IsSome(r) THEN Unwrap(r) + 1 ELSE 0

\* end_cursor that stops after the newline, not before it.
end_cursor_past_newline(buf, cur) ==
    LET f == find_newline(SliceFrom(buf, cur))
    IN  IF IsSome(f) THEN cur + Unwrap(f) + 1 ELSE Len(buf)

\* KeyCode::End
end_cursor(buf, cur) ==
    LET f == find_newline(SliceFrom(buf, cur))
    IN  IF IsSome(f) THEN cur + Unwrap(f) ELSE Len(buf)

\* KeyCode::Left
left_cursor(buf, cur) == IF cur > 0 THEN cur - 1 ELSE cur

\* right_cursor without its test against the length.
right_cursor_unclamped(buf, cur) == cur + 1

\* KeyCode::Right
right_cursor(buf, cur) == IF cur < Len(buf) THEN cur + 1 ELSE cur

\* The cursor after an insert at cur (KeyCode::Enter, KeyCode::Char).
insert_cursor(cur, c) == cur + 1

(***************************************************************************)
(* The Notes branch of handle_input (view_mode == Notes && !input_mode).   *)
(* String::insert, String::remove and the slices panic when the offset is  *)
(* not a char boundary.                                                    *)
(***************************************************************************)
NotesGuard(k) == Handles(k) /\ InNotesBranch

NotesOnlyCursor == UNCHANGED <<taskVars, notes, notes_buffer, should_quit, view_mode>>

\* save_notes that saves without copying the buffer into the store.
NotesCtrlS_no_copy(ok) ==
    /\ NotesGuard(KeyCtrlS)
    /\ notes' = notes
    /\ Save(ok, tasks, notes')
    /\ UNCHANGED <<taskVars, notes_buffer, notes_cursor, should_quit, view_mode, panicked>>

\* save_notes that keeps the Store's notes when the save fails.
NotesCtrlS_rollback(ok) ==
    /\ NotesGuard(KeyCtrlS)
    /\ notes' = IF ok THEN notes_buffer ELSE notes
    /\ Save(ok, tasks, notes')
    /\ UNCHANGED <<taskVars, notes_buffer, notes_cursor, should_quit, view_mode, panicked>>

\* App::save_notes, on Ctrl+S.
NotesCtrlS(ok) ==
    /\ NotesGuard(KeyCtrlS)
    /\ notes' = notes_buffer
    /\ Save(ok, tasks, notes')
    /\ UNCHANGED <<taskVars, notes_buffer, notes_cursor, should_quit, view_mode, panicked>>

\* KeyCode::Char('q')
NotesQuit ==
    /\ NotesGuard(KeyChar(CharQ))
    /\ should_quit' = TRUE
    /\ NoSave
    /\ UNCHANGED <<taskVars, notes, notes_buffer, notes_cursor, view_mode, panicked>>

\* App::toggle_view
toggle_view ==
    /\ view_mode' = IF view_mode = "Scheduled" THEN "Notes" ELSE "Scheduled"
    /\ selected_task' = 0

\* KeyCode::Tab
NotesTab ==
    /\ NotesGuard(Key("Tab"))
    /\ toggle_view
    /\ NoSave
    /\ UNCHANGED <<tasks, current_date, input_mode, input_buffer, start_time_buffer,
                   end_time_buffer, time_input_field, editing_task_idx, notes,
                   notes_buffer, notes_cursor, should_quit, panicked>>

\* notes_buffer.insert(notes_cursor, c); notes_cursor += 1
InsertAtCursor(c) ==
    /\ IF is_char_boundary(notes_buffer, notes_cursor)
       THEN /\ notes_buffer' = StringInsert(notes_buffer, notes_cursor, c)
            /\ notes_cursor' = insert_cursor(notes_cursor, c)
            /\ UNCHANGED panicked
       ELSE Panic /\ UNCHANGED <<notes_buffer, notes_cursor>>
    /\ NoSave
    /\ UNCHANGED <<taskVars, notes, should_quit, view_mode>>

\* KeyCode::Enter
NotesEnter(maxLen) ==
    /\ NotesGuard(Key("Enter"))
    /\ Len(notes_buffer) + 1 <= maxLen
    /\ InsertAtCursor(NewlineChar)

\* KeyCode::Char(c), for every c the arms above it leave: not 'q'.
NotesChar(c, maxLen) ==
    /\ NotesGuard(KeyChar(c))
    /\ c # CharQ
    /\ Len(notes_buffer) + len_utf8(c) <= maxLen
    /\ InsertAtCursor(c)

\* KeyCode::Backspace
NotesBackspace ==
    /\ NotesGuard(Key("Backspace"))
    /\ IF notes_cursor > 0
       THEN /\ notes_cursor' = notes_cursor - 1
            /\ IF is_char_boundary(notes_buffer, notes_cursor')
               THEN /\ notes_buffer' = StringRemove(notes_buffer, notes_cursor')
                    /\ UNCHANGED panicked
               ELSE Panic /\ UNCHANGED notes_buffer
       ELSE UNCHANGED <<notes_buffer, notes_cursor, panicked>>
    /\ NoSave
    /\ UNCHANGED <<taskVars, notes, should_quit, view_mode>>

\* KeyCode::Delete
NotesDelete ==
    /\ NotesGuard(Key("Delete"))
    /\ IF notes_cursor < Len(notes_buffer)
       THEN IF is_char_boundary(notes_buffer, notes_cursor)
            THEN /\ notes_buffer' = StringRemove(notes_buffer, notes_cursor)
                 /\ UNCHANGED panicked
            ELSE Panic /\ UNCHANGED notes_buffer
       ELSE UNCHANGED <<notes_buffer, panicked>>
    /\ NoSave
    /\ UNCHANGED <<taskVars, notes, notes_cursor, should_quit, view_mode>>

\* KeyCode::Left
NotesLeft ==
    /\ NotesGuard(Key("Left"))
    /\ notes_cursor' = left_cursor(notes_buffer, notes_cursor)
    /\ NoSave
    /\ UNCHANGED panicked
    /\ NotesOnlyCursor

\* KeyCode::Right
NotesRight ==
    /\ NotesGuard(Key("Right"))
    /\ notes_cursor' = right_cursor(notes_buffer, notes_cursor)
    /\ NoSave
    /\ UNCHANGED panicked
    /\ NotesOnlyCursor

\* An arm whose first statement slices the buffer at the cursor, then moves
\* the cursor to `to`.
SliceThenMove(to) ==
    /\ IF is_char_boundary(notes_buffer, notes_cursor)
       THEN notes_cursor' = to /\ UNCHANGED panicked
       ELSE Panic /\ UNCHANGED notes_cursor
    /\ NoSave
    /\ NotesOnlyCursor

\* KeyCode::Up
NotesUp ==
    /\ NotesGuard(Key("Up"))
    /\ SliceThenMove(up_cursor(notes_buffer, notes_cursor))

\* KeyCode::Down
NotesDown ==
    /\ NotesGuard(Key("Down"))
    /\ SliceThenMove(down_cursor(notes_buffer, notes_cursor))

\* KeyCode::Home
NotesHome ==
    /\ NotesGuard(Key("Home"))
    /\ SliceThenMove(home_cursor(notes_buffer, notes_cursor))

\* KeyCode::End
NotesEnd ==
    /\ NotesGuard(Key("End"))
    /\ SliceThenMove(end_cursor(notes_buffer, notes_cursor))

\* Any other key: the `_ => {}` arm.
NotesOther ==
    /\ NotesGuard(Key("Esc"))
    /\ NoSave
    /\ UNCHANGED <<taskVars, notes, notes_buffer, notes_cursor, should_quit,
                   view_mode, panicked>>

(***************************************************************************)
(* The input-mode branch of handle_input (adding or editing a task).       *)
(***************************************************************************)
InputGuard(k) == Handles(k) /\ InInputBranch

NotesUntouched == UNCHANGED <<notes, notes_buffer, notes_cursor>>

\* The task add_task pushes.
new_task ==
    Task(trim(input_buffer), FALSE, Some(current_date),
         time_field(start_time_buffer), time_field(end_time_buffer))

\* edited_task that also clears the completed flag.
edited_task_uncompleted(t) ==
    [t EXCEPT !.content = trim(input_buffer),
              !.completed = FALSE,
              !.start_time = time_field(start_time_buffer),
              !.end_time = time_field(end_time_buffer)]

\* The task add_task leaves at the edited index.
edited_task(t) ==
    [t EXCEPT !.content = trim(input_buffer),
              !.start_time = time_field(start_time_buffer),
              !.end_time = time_field(end_time_buffer)]

\* content_accepted without the trim.
content_accepted_untrimmed == input_buffer # << >>

\* add_task's test of the content.
content_accepted == trim(input_buffer) # << >>

\* App::add_task, on KeyCode::Enter.
InputEnter(ok, maxTasks) ==
    /\ InputGuard(Key("Enter"))
    /\ IF content_accepted
       THEN /\ IF IsSome(editing_task_idx)
               THEN IF Unwrap(editing_task_idx) < Len(tasks)
                    THEN /\ tasks' = [tasks EXCEPT ![Unwrap(editing_task_idx) + 1] =
                                                     edited_task(@)]
                         /\ UNCHANGED panicked
                    ELSE Panic /\ UNCHANGED tasks
               ELSE /\ Len(tasks) < maxTasks
                    /\ tasks' = Append(tasks, new_task)
                    /\ UNCHANGED panicked
            /\ IF panicked' THEN NoSave /\ UNCHANGED <<input_buffer, start_time_buffer,
                                                      end_time_buffer>>
               ELSE /\ Save(ok, tasks', notes)
                    /\ input_buffer' = << >>
                    /\ start_time_buffer' = << >>
                    /\ end_time_buffer' = << >>
       ELSE /\ NoSave
            /\ UNCHANGED <<tasks, input_buffer, start_time_buffer, end_time_buffer,
                           panicked>>
    /\ IF panicked' THEN UNCHANGED <<input_mode, time_input_field, editing_task_idx>>
       ELSE /\ input_mode' = FALSE
            /\ time_input_field' = 0
            /\ editing_task_idx' = None
    /\ UNCHANGED <<current_date, selected_task, should_quit, view_mode>>
    /\ NotesUntouched

\* The Esc arm without the reset of editing_task_idx.
InputEsc_keeps_idx ==
    /\ InputGuard(Key("Esc"))
    /\ input_mode' = FALSE
    /\ time_input_field' = 0
    /\ input_buffer' = << >>
    /\ start_time_buffer' = << >>
    /\ end_time_buffer' = << >>
    /\ NoSave
    /\ UNCHANGED <<tasks, current_date, selected_task, editing_task_idx, should_quit,
                   view_mode, panicked>>
    /\ NotesUntouched

\* KeyCode::Esc
InputEsc ==
    /\ InputGuard(Key("Esc"))
    /\ input_mode' = FALSE
    /\ time_input_field' = 0
    /\ editing_task_idx' = None
    /\ input_buffer' = << >>
    /\ start_time_buffer' = << >>
    /\ end_time_buffer' = << >>
    /\ NoSave
    /\ UNCHANGED <<tasks, current_date, selected_task, should_quit, view_mode, panicked>>
    /\ NotesUntouched

\* The Tab arm of input mode switching the view, as Tab does outside it.
InputTab_switches_view ==
    /\ InputGuard(Key("Tab"))
    /\ toggle_view
    /\ NoSave
    /\ UNCHANGED <<tasks, current_date, input_mode, input_buffer, start_time_buffer,
                   end_time_buffer, time_input_field, editing_task_idx,
                   should_quit, panicked>>
    /\ NotesUntouched

\* KeyCode::Tab
InputTab ==
    /\ InputGuard(Key("Tab"))
    /\ time_input_field' = (time_input_field + 1) % 3
    /\ NoSave
    /\ UNCHANGED <<tasks, current_date, selected_task, input_mode, input_buffer,
                   start_time_buffer, end_time_buffer, editing_task_idx,
                   should_quit, view_mode, panicked>>
    /\ NotesUntouched

\* A time buffer after KeyCode::Char(c): at most 5 bytes, digits and ':' only.
time_push(buf, c) ==
    IF Len(buf) < 5 /\ (is_ascii_digit(c[1]) \/ c = CharColon) THEN push(buf, c)
    ELSE buf

\* KeyCode::Char(c).  The user types only the texts given: c is pressed when
\* the buffer of the active field followed by c is a prefix of a text of
\* contentTexts (field 0), startTexts (field 1) or endTexts (field 2).
InputChar(c, contentTexts, startTexts, endTexts) ==
    /\ InputGuard(KeyChar(c))
    /\ time_input_field = 0 => push(input_buffer, c) \in Prefixes(contentTexts)
    /\ time_input_field = 1 => push(start_time_buffer, c) \in Prefixes(startTexts)
    /\ time_input_field = 2 => push(end_time_buffer, c) \in Prefixes(endTexts)
    /\ input_buffer' = IF time_input_field = 0 THEN push(input_buffer, c)
                       ELSE input_buffer
    /\ start_time_buffer' = IF time_input_field = 1
                            THEN time_push(start_time_buffer, c)
                            ELSE start_time_buffer
    /\ end_time_buffer' = IF time_input_field = 2
                          THEN time_push(end_time_buffer, c)
                          ELSE end_time_buffer
    /\ NoSave
    /\ UNCHANGED <<tasks, current_date, selected_task, input_mode, time_input_field,
                   editing_task_idx, should_quit, view_mode, panicked>>
    /\ NotesUntouched

\* KeyCode::Backspace
InputBackspace ==
    /\ InputGuard(Key("Backspace"))
    /\ input_buffer' = IF time_input_field = 0 THEN pop(input_buffer) ELSE input_buffer
    /\ start_time_buffer' = IF time_input_field = 1 THEN pop(start_time_buffer)
                            ELSE start_time_buffer
    /\ end_time_buffer' = IF time_input_field = 2 THEN pop(end_time_buffer)
                          ELSE end_time_buffer
    /\ NoSave
    /\ UNCHANGED <<tasks, current_date, selected_task, input_mode, time_input_field,
                   editing_task_idx, should_quit, view_mode, panicked>>
    /\ NotesUntouched

\* Any other key: the `_ => {}` arm.
InputOther ==
    /\ InputGuard(Key("Up"))
    /\ NoSave
    /\ UNCHANGED <<taskVars, should_quit, view_mode, panicked>>
    /\ NotesUntouched

(***************************************************************************)
(* The last branch of handle_input: the task list outside input mode.      *)
(***************************************************************************)
NormalGuard(k) == Handles(k) /\ InNormalBranch

InputUntouched ==
    UNCHANGED <<input_mode, input_buffer, start_time_buffer, end_time_buffer,
                time_input_field, editing_task_idx>>

\* KeyCode::Char('q')
NormalQuit ==
    /\ NormalGuard(KeyChar(CharQ))
    /\ should_quit' = TRUE
    /\ NoSave
    /\ UNCHANGED <<tasks, current_date, selected_task, view_mode, panicked>>
    /\ InputUntouched
    /\ NotesUntouched

\* KeyCode::Char('n')
NormalNew ==
    /\ NormalGuard(KeyChar(<<110>>))
    /\ input_mode' = IF view_mode = "Scheduled" THEN TRUE ELSE input_mode
    /\ NoSave
    /\ UNCHANGED <<tasks, current_date, selected_task, input_buffer,
                   start_time_buffer, end_time_buffer, time_input_field,
                   editing_task_idx, should_quit, view_mode, panicked>>
    /\ NotesUntouched

\* The text start_edit_task puts into a time buffer.
time_text(t) == IF IsSome(t) THEN format_time(Unwrap(t)) ELSE << >>

\* App::start_edit_task, on KeyCode::Char('e')
NormalEdit ==
    /\ NormalGuard(KeyChar(<<101>>))
    /\ IF view_mode = "Scheduled" /\ IsSome(SelectedRow)
       THEN LET idx == Unwrap(SelectedRow)[1]
            IN  IF idx < Len(tasks)
                THEN /\ input_buffer' = tasks[idx + 1].content
                     /\ start_time_buffer' = time_text(tasks[idx + 1].start_time)
                     /\ end_time_buffer' = time_text(tasks[idx + 1].end_time)
                     /\ editing_task_idx' = Some(idx)
                     /\ input_mode' = TRUE
                     /\ time_input_field' = 0
                     /\ UNCHANGED panicked
                ELSE Panic /\ InputUntouched
       ELSE UNCHANGED panicked /\ InputUntouched
    /\ NoSave
    /\ UNCHANGED <<tasks, current_date, selected_task, should_quit, view_mode>>
    /\ NotesUntouched

\* toggle_task that takes the selected row for the store index.
NormalToggle_by_row(ok) ==
    /\ NormalGuard(KeyChar(CharSpace))
    /\ IF view_mode = "Scheduled" /\ IsSome(SelectedRow)
       THEN /\ tasks' = [tasks EXCEPT ![selected_task + 1].completed = ~@]
            /\ Save(ok, tasks', notes)
       ELSE NoSave /\ UNCHANGED tasks
    /\ UNCHANGED <<current_date, selected_task, should_quit, view_mode, panicked>>
    /\ InputUntouched
    /\ NotesUntouched

\* App::toggle_task, on KeyCode::Char(' ')
NormalToggle(ok) ==
    /\ NormalGuard(KeyChar(CharSpace))
    /\ IF view_mode = "Scheduled" /\ IsSome(SelectedRow)
       THEN LET idx == Unwrap(SelectedRow)[1]
            IN  IF idx < Len(tasks)
                THEN /\ tasks' = [tasks EXCEPT ![idx + 1].completed = ~@]
                     /\ Save(ok, tasks', notes)
                     /\ UNCHANGED panicked
                ELSE Panic /\ NoSave /\ UNCHANGED tasks
       ELSE NoSave /\ UNCHANGED <<tasks, panicked>>
    /\ UNCHANGED <<current_date, selected_task, should_quit, view_mode>>
    /\ InputUntouched
    /\ NotesUntouched

\* Vec::swap_remove(idx): the last element takes the place of the removed.
swap_remove(s, idx) ==
    IF idx + 1 = Len(s) THEN SubSeq(s, 1, idx)
    ELSE SubSeq(s, 1, idx) \o <<s[Len(s)]>> \o SubSeq(s, idx + 2, Len(s) - 1)

\* Vec::remove(idx), idx < len: the later elements move down by one.
Remove(s, idx) == SubSeq(s, 1, idx) \o SubSeq(s, idx + 2, Len(s))

\* delete_task that takes the selected row for the store index.
NormalDelete_by_row(ok) ==
    /\ NormalGuard(KeyChar(<<100>>))
    /\ IF view_mode = "Scheduled" /\ IsSome(SelectedRow)
       THEN /\ tasks' = SubSeq(tasks, 1, selected_task)
                          \o SubSeq(tasks, selected_task + 2, Len(tasks))
            /\ Save(ok, tasks', notes)
            /\ selected_task' = IF selected_task > 0 THEN selected_task - 1
                                ELSE selected_task
       ELSE NoSave /\ UNCHANGED <<tasks, selected_task>>
    /\ UNCHANGED <<current_date, should_quit, view_mode, panicked>>
    /\ InputUntouched
    /\ NotesUntouched

\* delete_task without the step back of the selection.
NormalDelete_keeps_selection(ok) ==
    /\ NormalGuard(KeyChar(<<100>>))
    /\ IF view_mode = "Scheduled" /\ IsSome(SelectedRow)
       THEN /\ tasks' = Remove(tasks, Unwrap(SelectedRow)[1])
            /\ Save(ok, tasks', notes)
       ELSE NoSave /\ UNCHANGED tasks
    /\ UNCHANGED <<current_date, selected_task, should_quit, view_mode, panicked>>
    /\ InputUntouched
    /\ NotesUntouched

\* App::delete_task, on KeyCode::Char('d')
NormalDelete(ok) ==
    /\ NormalGuard(KeyChar(<<100>>))
    /\ IF view_mode = "Scheduled" /\ IsSome(SelectedRow)
       THEN LET idx == Unwrap(SelectedRow)[1]
            IN  IF idx < Len(tasks)
                THEN /\ tasks' = Remove(tasks, idx)
                     /\ Save(ok, tasks', notes)
                     /\ selected_task' = IF selected_task > 0 THEN selected_task - 1
                                         ELSE selected_task
                     /\ UNCHANGED panicked
                ELSE Panic /\ NoSave /\ UNCHANGED <<tasks, selected_task>>
       ELSE NoSave /\ UNCHANGED <<tasks, selected_task, panicked>>
    /\ UNCHANGED <<current_date, should_quit, view_mode>>
    /\ InputUntouched
    /\ NotesUntouched

\* KeyCode::Tab
NormalTab ==
    /\ NormalGuard(Key("Tab"))
    /\ toggle_view
    /\ NoSave
    /\ UNCHANGED <<tasks, current_date, should_quit, panicked>>
    /\ InputUntouched
    /\ NotesUntouched

\* App::prev_task
prev_task_row(n, sel) ==
    IF n # 0 THEN (IF sel = 0 THEN n - 1 ELSE sel - 1) ELSE sel

\* App::next_task
next_task_row(n, sel) ==
    IF n # 0 THEN (sel + 1) % n ELSE sel

\* KeyCode::Up | KeyCode::Char('k')
NormalUp ==
    /\ \E k \in {Key("Up"), KeyChar(<<107>>)} : NormalGuard(k)
    /\ selected_task' =
           prev_task_row(Len(current_tasks(view_mode, tasks, current_date)), selected_task)
    /\ NoSave
    /\ UNCHANGED <<tasks, current_date, should_quit, view_mode, panicked>>
    /\ InputUntouched
    /\ NotesUntouched

\* next_task that also stores the displayed list, in its order, when every
\* task of the store is displayed.
NormalDown_stores_display ==
    LET rows == current_tasks(view_mode, tasks, current_date)
    IN  /\ \E k \in {Key("Down"), KeyChar(<<106>>)} : NormalGuard(k)
        /\ selected_task' = next_task_row(Len(rows), selected_task)
        /\ tasks' = IF Len(rows) = Len(tasks) THEN [r \in 1..Len(rows) |-> rows[r][2]]
                     ELSE tasks
        /\ NoSave
        /\ UNCHANGED <<current_date, should_quit, view_mode, panicked>>
        /\ InputUntouched
        /\ NotesUntouched

\* KeyCode::Down | KeyCode::Char('j')
NormalDown ==
    /\ \E k \in {Key("Down"), KeyChar(<<106>>)} : NormalGuard(k)
    /\ selected_task' =
           next_task_row(Len(current_tasks(view_mode, tasks, current_date)), selected_task)
    /\ NoSave
    /\ UNCHANGED <<tasks, current_date, should_quit, view_mode, panicked>>
    /\ InputUntouched
    /\ NotesUntouched

\* NaiveDate::pred_opt().unwrap_or(date): no date before the first.
pred_date(d) == IF d > 0 THEN d - 1 ELSE d

\* NaiveDate::succ_opt().unwrap_or(date): no date after the last.
succ_date(d) == IF d < MaxDate THEN d + 1 ELSE d

\* App::prev_day, on KeyCode::Left | KeyCode::Char('h')
NormalLeft ==
    /\ \E k \in {Key("Left"), KeyChar(<<104>>)} : NormalGuard(k)
    /\ IF view_mode = "Scheduled"
       THEN current_date' = pred_date(current_date) /\ selected_task' = 0
       ELSE UNCHANGED <<current_date, selected_task>>
    /\ NoSave
    /\ UNCHANGED <<tasks, should_quit, view_mode, panicked>>
    /\ InputUntouched
    /\ NotesUntouched

\* App::next_day, on KeyCode::Right | KeyCode::Char('l')
NormalRight ==
    /\ \E k \in {Key("Right"), KeyChar(<<108>>)} : NormalGuard(k)
    /\ IF view_mode = "Scheduled"
       THEN current_date' = succ_date(current_date) /\ selected_task' = 0
       ELSE UNCHANGED <<current_date, selected_task>>
    /\ NoSave
    /\ UNCHANGED <<tasks, should_quit, view_mode, panicked>>
    /\ InputUntouched
    /\ NotesUntouched

\* Any other key: the `_ => {}` arm.
NormalOther ==
    /\ NormalGuard(Key("Enter"))
    /\ NoSave
    /\ UNCHANGED <<taskVars, should_quit, view_mode, panicked>>
    /\ NotesUntouched

(***************************************************************************)
(* A turn of the loop whose draw panics: the process aborts before it      *)
(* reads a key.                                                            *)
(***************************************************************************)
DrawAbort ==
    /\ Running
    /\ DrawPanics
    /\ Panic
    /\ UNCHANGED <<taskVars, notes, notes_buffer, notes_cursor, should_quit,
                   view_mode, disk, last_save, key>>

(***************************************************************************)
(* App::new: the store is what AppData::load read, the note buffer is a    *)
(* clone of its notes with the cursor at its end.                          *)
(***************************************************************************)
Dates == 0..MaxDate

NoKey == [code |-> "None", ch |-> << >>]

\* App::new over the loaded task sequences T, the loaded notes N and the
\* dates D that today may be.
InitWith(T, N, D) ==
    /\ tasks \in T
    /\ notes \in N
    /\ current_date \in D
    /\ selected_task = 0
    /\ input_mode = FALSE
    /\ input_buffer = << >>
    /\ start_time_buffer = << >>
    /\ end_time_buffer = << >>
    /\ time_input_field = 0
    /\ editing_task_idx = None
    /\ notes_buffer = notes
    /\ notes_cursor = Len(notes_buffer)
    /\ should_quit = FALSE
    /\ view_mode = "Scheduled"
    /\ panicked = FALSE
    /\ disk = Store(tasks, notes)
    /\ last_save = "none"
    /\ key = NoKey

(***************************************************************************)
(* SpecNotes: the note editor.  The store holds no task; the keys are Tab  *)
(* and the keys of the Notes view.                                         *)
(***************************************************************************)
\* Notes a session may start from: none, "a\na", and "é".
LoadedNotes == {<< >>, <<97, 10, 97>>, CharEAcute}

\* The characters typed into the note.
NoteChars == {CharA, CharEAcute}

InitNotes == InitWith({<< >>}, LoadedNotes, {0})

NextNotes ==
    \/ DrawAbort
    \/ NormalTab
    \/ NotesTab
    \/ NotesCtrlS(TRUE)
    \/ NotesQuit
    \/ NotesEnter(MaxNotesLen)
    \/ \E c \in NoteChars : NotesChar(c, MaxNotesLen)
    \/ NotesBackspace
    \/ NotesDelete
    \/ NotesLeft
    \/ NotesRight
    \/ NotesUp
    \/ NotesDown
    \/ NotesHome
    \/ NotesEnd
    \/ NotesOther

SpecNotes == InitNotes /\ [][NextNotes]_vars

(***************************************************************************)
(* SpecInput: the add/edit dialog.  The store starts empty or with one     *)
(* task; the keys are those of the dialog and the keys that open it.       *)
(***************************************************************************)
\* Most tasks the store holds in SpecInput.
MaxInputTasks == 1

\* Task sequences a session may start from: none, or one completed task
\* "a" of date 0 from 11:01 with no end.
LoadedInputTasks ==
    {<< >>, <<Task(CharA, TRUE, Some(0), Some(661), None)>>}

\* The contents typed: " a ", "  " and "a".
ContentTexts == {<<32, 97, 32>>, <<32, 32>>, <<97>>}

\* The start times typed: "11:011" (the code takes five characters) and "1a"
\* (the code takes digits and ':').
StartTexts == {<<49, 49, 58, 48, 49, 49>>, <<49, 97>>}

\* The end times typed: "1:1".
EndTexts == {<<49, 58, 49>>}

\* The characters typed in the dialog: ' ', 'a', ':', '0', '1'.
InputChars == {CharSpace, CharA, CharColon, <<48>>, CharOne}

InitInput == InitWith(LoadedInputTasks, {<< >>}, {0})

NextInput ==
    \/ NormalNew
    \/ NormalEdit
    \/ InputEnter(TRUE, MaxInputTasks)
    \/ InputEsc
    \/ InputTab
    \/ \E c \in InputChars : InputChar(c, ContentTexts, StartTexts, EndTexts)
    \/ InputBackspace

SpecInput == InitInput /\ [][NextInput]_vars

(***************************************************************************)
(* SpecQuery and SpecDisplay: the derived views over every small store.    *)
(* The keys are those that move the selection and the day.                 *)
(***************************************************************************)
\* Most tasks of a loaded store in SpecQuery and SpecDisplay.
MaxViewTasks == 3

\* The sequences over U of length at most n.
SeqsUpTo(U, n) == UNION {[1..k -> U] : k \in 0..n}

\* SpecQuery: tasks with or without a date, done or not, timed or not.
QueryTasks ==
    {Task(CharA, c, d, st, None) :
        c \in BOOLEAN, d \in {None, Some(0), Some(1)}, st \in {None, Some(61)}}

\* SpecDisplay: dated tasks with every mix of start and end time.
DisplayTasks ==
    {Task(CharA, FALSE, d, st, et) :
        d \in {Some(0), Some(1)}, st \in {None, Some(61), Some(71)},
        et \in {None, Some(61)}}

InitQuery == InitWith(SeqsUpTo(QueryTasks, MaxViewTasks), {<< >>}, Dates)

InitDisplay == InitWith(SeqsUpTo(DisplayTasks, MaxViewTasks), {<< >>}, Dates)

NextView ==
    \/ NormalUp
    \/ NormalDown
    \/ NormalLeft
    \/ NormalRight

SpecQuery == InitQuery /\ [][NextView]_vars

SpecDisplay == InitDisplay /\ [][NextView]_vars

(***************************************************************************)
(* SpecStore: the task list over a small store, every save succeeding:     *)
(* the task list keys, the dialog and the switch of views.  The session    *)
(* starts on date 1 and the day key is the one to the day before.          *)
(***************************************************************************)
\* Most tasks the store holds in SpecStore.
MaxStoreTasks == 2

\* Task sequences a session may start from: none, or "a" (date 1, untimed)
\* and "b" (date 1, done, from 01:01): the display of date 1 shows "b" above
\* "a".
LoadedStoreTasks ==
    {<< >>,
     <<Task(CharA, FALSE, Some(1), None, None),
       Task(<<98>>, TRUE, Some(1), Some(61), None)>>}

\* The contents typed in SpecStore: " d", and "ad" (a "d" after the content
\* "a" of an edited task).
StoreContentTexts == {<<32, 100>>, <<97, 100>>}

\* The start time typed in SpecStore: "1:1".
StoreStartTexts == {<<49, 58, 49>>}

\* The characters typed in the dialog in SpecStore: ' ', 'd', '1', ':'.
StoreInputChars == {CharSpace, <<100>>, CharOne, CharColon}

InitStore == InitWith(LoadedStoreTasks, {<< >>}, {1})

NextStore ==
    \/ NormalToggle(TRUE)
    \/ NormalDelete(TRUE)
    \/ NormalNew
    \/ NormalEdit
    \/ NormalUp
    \/ NormalDown
    \/ NormalLeft
    \/ NormalTab
    \/ InputEnter(TRUE, MaxStoreTasks)
    \/ InputEsc
    \/ InputTab
    \/ \E c \in StoreInputChars : InputChar(c, StoreContentTexts, StoreStartTexts, {})
    \/ NotesTab

SpecStore == InitStore /\ [][NextStore]_vars

(***************************************************************************)
(* SpecSave: the keys that change the store, each save succeeding or       *)
(* failing, over a store of one task and an empty note.                    *)
(***************************************************************************)
\* Most tasks the store holds in SpecSave.
MaxSaveTasks == 2

\* Most bytes of the note in SpecSave.
MaxSaveNotes == 1

\* The store a session of SpecSave starts from: "a" (date 0, untimed).
LoadedSaveTasks == {<<Task(CharA, FALSE, Some(0), None, None)>>}

\* The content typed in SpecSave: "d".
SaveContentTexts == {<<100>>}

InitSave == InitWith(LoadedSaveTasks, {<< >>}, {0})

NextSave ==
    \E ok \in BOOLEAN :
        \/ NormalToggle(ok)
        \/ NormalDelete(ok)
        \/ NormalNew
        \/ NormalEdit
        \/ NormalDown
        \/ NormalTab
        \/ NormalQuit
        \/ InputEnter(ok, MaxSaveTasks)
        \/ InputEsc
        \/ InputChar(<<100>>, SaveContentTexts, {}, {})
        \/ NotesTab
        \/ NotesChar(CharA, MaxSaveNotes)
        \/ NotesCtrlS(ok)

SpecSave == InitSave /\ [][NextSave]_vars

(***************************************************************************)
(* SpecModes: the three branches of handle_input under the same keys: the  *)
(* letters of the task list's commands are typed in the Notes view and in  *)
(* the dialog as well.                                                     *)
(***************************************************************************)
\* Most tasks the store holds in SpecModes.
MaxModeTasks == 2

\* Most bytes of the note in SpecModes.
MaxModeNotes == 2

\* The characters typed in SpecModes: 'n', 'e', ' ', 'd', which are the
\* commands new, edit, toggle and delete of the task list.
ModeChars == {<<110>>, <<101>>, CharSpace, <<100>>}

\* The content typed in the dialog in SpecModes: "n d".
ModeContentTexts == {<<110, 32, 100>>}

InitModes == InitWith(LoadedSaveTasks, {<< >>}, {0})

NextModes ==
    \/ NormalNew
    \/ NormalEdit
    \/ NormalToggle(TRUE)
    \/ NormalDelete(TRUE)
    \/ NormalTab
    \/ NormalOther
    \/ InputEnter(TRUE, MaxModeTasks)
    \/ InputEsc
    \/ InputTab
    \/ \E c \in ModeChars : InputChar(c, ModeContentTexts, {}, {})
    \/ InputOther
    \/ NotesTab
    \/ \E c \in ModeChars : NotesChar(c, MaxModeNotes)
    \/ NotesBackspace
    \/ NotesOther

SpecModes == InitModes /\ [][NextModes]_vars

(***************************************************************************)
(* The note cursor and the note text (SpecNotes).                          *)
(***************************************************************************)
\* C1: after any sequence of note-view keys, from a cursor at the end of the
\* loaded notes, 0 <= notes_cursor <= length(notes_buffer).
C1_CursorInRange == notes_cursor >= 0 /\ notes_cursor <= Len(notes_buffer)

\* Right was pressed with the cursor at the end of a non-empty buffer.
C1_Witness ==
    /\ key = Key("Right")
    /\ notes_buffer # << >>
    /\ notes_cursor = Len(notes_buffer)

\* C2: in every reachable state the note cursor is on a character boundary
\* of the note buffer, multi-byte characters included.
C2_CursorOnCharBoundary == is_char_boundary(notes_buffer, notes_cursor)

\* C3: no sequence of key events, in any view and mode and with any typed
\* characters, drives the program into an abort.
C3_NeverPanics == ~panicked

\* The line start and the column of offset cur in buf.
LineStart(buf, cur) ==
    LET before == {p \in 1..cur : buf[p] = 10}
    IN  IF before = {} THEN 0 ELSE CHOOSE p \in before : \A r \in before : r <= p

\* Whether offset cur is on the first line of buf.
OnFirstLine(buf, cur) == \A p \in 1..cur : buf[p] # 10

\* C5, as claimed: Up with the cursor on the first line sets the cursor to
\* min(col, 0) = 0, the start of the line, and leaves the buffer alone.
C5_UpOnFirstLineGoesToLineStart ==
    [][NotesUp /\ OnFirstLine(notes_buffer, notes_cursor)
         => notes_cursor' = 0 /\ notes_buffer' = notes_buffer]_vars

\* C5, amended: Up with the cursor on the first line leaves the cursor where
\* it is, whatever its column, and leaves the buffer alone.
C5_UpOnFirstLineStays ==
    [][NotesUp /\ OnFirstLine(notes_buffer, notes_cursor)
         => notes_cursor' = notes_cursor /\ notes_buffer' = notes_buffer]_vars

\* Up was pressed in a buffer of one line and the cursor is past its start.
C5_Witness ==
    /\ key = Key("Up")
    /\ OnFirstLine(notes_buffer, Len(notes_buffer))
    /\ notes_cursor > 0
    /\ ~panicked

\* Where the claim puts the cursor on Down: next-line-start + min(col,
\* next-line-length) when a newline is at or after the cursor, else no move.
DownExpected(buf, cur) ==
    LET after == {p \in (cur + 1)..Len(buf) : buf[p] = 10}
    IN  IF after = {} THEN cur
        ELSE LET next_line_start == CHOOSE p \in after : \A r \in after : p <= r
                 later == {p \in (next_line_start + 1)..Len(buf) : buf[p] = 10}
                 next_line_end == IF later = {} THEN Len(buf)
                                  ELSE (CHOOSE p \in later : \A r \in later : p <= r) - 1
             IN  next_line_start
                   + Min(cur - LineStart(buf, cur), next_line_end - next_line_start)

\* C6: Down moves the cursor to next-line-start + min(col, next-line-length)
\* whenever a newline is at or after the cursor, an empty last line after a
\* trailing newline included, and is a no-op otherwise; the buffer is kept.
C6_DownKeepsColumn ==
    [][NotesDown => /\ notes_cursor' = DownExpected(notes_buffer, notes_cursor)
                    /\ notes_buffer' = notes_buffer]_vars

\* C7, as claimed: the Store's notes are the text in the editor.
C7_StoreNotesAreEditedText == notes = notes_buffer

\* C7, amended: the editor works on a copy of the Store's notes.  The two are
\* equal at startup; Ctrl+S (save_notes) sets the Store's notes to the edited
\* text; every other key, the edits included, leaves the Store's notes alone.
C7_StoreNotesCopiedOnSave ==
    /\ notes = notes_buffer
    /\ [][IF \E ok \in BOOLEAN : NotesCtrlS(ok)
          THEN notes' = notes_buffer'
          ELSE notes' = notes]_vars

\* A character was typed, then Ctrl+S made the Store's notes the edited text,
\* which the session did not start from.
C7_Witness ==
    /\ key = KeyCtrlS
    /\ notes = notes_buffer
    /\ notes \notin LoadedNotes

\* An insert key of the Notes view: Enter or a character.
InsertKey == NotesEnter(MaxNotesLen) \/ \E c \in NoteChars : NotesChar(c, MaxNotesLen)

\* The character an insert key carries.
TypedChar(k) == IF k.code = "Enter" THEN <<10>> ELSE k.ch

\* C18: an insert of a character or a newline at cursor c in buffer b gives
\* the buffer b[0..c] + ch + b[c..] and the cursor c + 1, with no abort; so
\* typing at the end of the text leaves the cursor at the end of the text
\* (typing a text into an empty buffer ends with the cursor at its length).
C18_InsertSplicesAndAdvances ==
    [][InsertKey =>
         /\ ~panicked'
         /\ notes_buffer' = SubSeq(notes_buffer, 1, notes_cursor) \o TypedChar(key')
                               \o SubSeq(notes_buffer, notes_cursor + 1, Len(notes_buffer))
         /\ notes_cursor' = notes_cursor + 1
         /\ notes_cursor = Len(notes_buffer) => notes_cursor' = Len(notes_buffer')]_vars

\* C19: Backspace at cursor c > 0 removes exactly the unit at c - 1 and sets
\* the cursor to c - 1, with no abort; at cursor 0 it changes neither.
C19_BackspaceRemovesUnitBefore ==
    [][NotesBackspace =>
         IF notes_cursor > 0
         THEN /\ ~panicked'
              /\ notes_buffer' = SubSeq(notes_buffer, 1, notes_cursor - 1)
                                    \o SubSeq(notes_buffer, notes_cursor + 1, Len(notes_buffer))
              /\ notes_cursor' = notes_cursor - 1
         ELSE notes_buffer' = notes_buffer /\ notes_cursor' = notes_cursor]_vars

\* The offset just past the character of buf that starts at offset cur: past
\* its first unit and the continuation units (10xxxxxx) that follow it.
CharEnd(buf, cur) ==
    CHOOSE e \in (cur + 1)..Len(buf) :
        /\ \A p \in (cur + 2)..e : buf[p] \in 128..191
        /\ e < Len(buf) => buf[e + 1] \notin 128..191

\* C20, as claimed: Delete at cursor c < length removes exactly the unit at
\* c and leaves the cursor at c; at cursor = length it changes neither.
C20_DeleteRemovesUnitAt ==
    [][NotesDelete =>
         IF notes_cursor < Len(notes_buffer)
         THEN /\ ~panicked'
              /\ notes_buffer' = SubSeq(notes_buffer, 1, notes_cursor)
                                    \o SubSeq(notes_buffer, notes_cursor + 2, Len(notes_buffer))
              /\ notes_cursor' = notes_cursor
         ELSE notes_buffer' = notes_buffer /\ notes_cursor' = notes_cursor]_vars

\* C20, amended: Delete at cursor c < length removes the whole character that
\* starts at c, every unit of it (one for a single-unit character, more for
\* a multi-unit one), keeps the other units in their order and leaves the
\* cursor at c, with no abort; at cursor = length it changes neither.
C20_DeleteRemovesCharAt ==
    [][NotesDelete =>
         IF notes_cursor < Len(notes_buffer)
         THEN /\ ~panicked'
              /\ notes_buffer' = SubSeq(notes_buffer, 1, notes_cursor)
                                    \o SubSeq(notes_buffer,
                                              CharEnd(notes_buffer, notes_cursor) + 1,
                                              Len(notes_buffer))
              /\ notes_cursor' = notes_cursor
         ELSE notes_buffer' = notes_buffer /\ notes_cursor' = notes_cursor]_vars

\* Delete was pressed at offset 0 of the loaded note "\u00e9" (two units):
\* the buffer is empty and the Store's notes are still the loaded ones.
C20_Witness ==
    /\ key = Key("Delete")
    /\ ~panicked
    /\ notes = CharEAcute
    /\ notes_buffer = << >>
    /\ notes_cursor = 0

(***************************************************************************)
(* Saving a task from the dialog (SpecInput).                              *)
(***************************************************************************)
\* Enter in the dialog: add_task runs.
EnterInDialog == \E ok \in BOOLEAN : InputEnter(ok, MaxInputTasks)

\* The task add_task wrote, in the state after it: the edited one, or the
\* last one.
WrittenTask(before_idx, after) ==
    IF IsSome(before_idx) THEN after[Unwrap(before_idx) + 1] ELSE after[Len(after)]

\* A text of whitespace only (the empty text included).
Blank(s) == \A i \in 1..Len(s) : s[i] \in {9, 10, 11, 12, 13, 32}

\* The number a text of one or two digits writes; -1 for any other text.
NumberOf(d) ==
    IF Len(d) \in {1, 2} /\ \A i \in 1..Len(d) : d[i] \in 48..57
    THEN IF Len(d) = 1 THEN d[1] - 48 ELSE 10 * (d[1] - 48) + (d[2] - 48)
    ELSE -1

\* The time a text h:m means when h and m are numbers of `digits` digits
\* (a set of lengths) within 0..23 and 0..59; None for any other text.
TimeOfText(s, digits) ==
    LET colons == {i \in 1..Len(s) : s[i] = 58}
    IN  IF Cardinality(colons) # 1 THEN None
        ELSE LET i == CHOOSE j \in colons : TRUE
                 h == SubSeq(s, 1, i - 1)
                 m == SubSeq(s, i + 1, Len(s))
             IN  IF /\ Len(h) \in digits /\ Len(m) \in digits
                    /\ NumberOf(h) \in 0..23 /\ NumberOf(m) \in 0..59
                 THEN Some(60 * NumberOf(h) + NumberOf(m))
                 ELSE None

\* What a save with non-blank content writes when a time text means what
\* TimeOfText(_, digits) says.
SaveWrites(digits) ==
    EnterInDialog /\ ~Blank(input_buffer)
      => LET t == WrittenTask(editing_task_idx, tasks')
         IN  /\ ~panicked'
             /\ t.start_time = TimeOfText(start_time_buffer, digits)
             /\ t.end_time = TimeOfText(end_time_buffer, digits)
             /\ ~Blank(t.content)
             /\ \E i \in 0..Len(input_buffer) :
                    t.content = SubSeq(input_buffer, i + 1, i + Len(t.content))

\* C4, as claimed: on a save with non-blank content, a time text that is not
\* a well-formed HH:MM literal (two digits, ':', two digits; "13:5" is not)
\* is stored as None, for a new task and for an edit, with no error, and the
\* content and the other time field are saved.
C4_MalformedTimeIsAbsent == [][SaveWrites({2})]_vars

\* C4, amended: a time text is stored as None when it is not a number 0..23
\* of one or two digits, ':', and a number 0..59 of one or two digits; a text
\* of that shape without the zero padding ("13:5", "11:0") is stored as the
\* time it means (13:05, 11:00).  No error is raised and the content and the
\* other time field are saved.
C4_UnparsableTimeIsAbsent == [][SaveWrites({1, 2})]_vars

\* A save stored 11:00, which only the text "11:0" gives before any task has
\* that time, next to an end time left absent.
C4_Witness ==
    /\ key = Key("Enter")
    /\ ~input_mode
    /\ Len(tasks) = 1
    /\ tasks[1].start_time = Some(660)
    /\ tasks[1].end_time = None
    /\ ~tasks[1].completed

\* C8: a save whose content is empty or whitespace-only leaves the task
\* sequence as it was, adding or editing, whatever the time fields hold.
C8_BlankContentKeepsTasks ==
    [][EnterInDialog /\ Blank(input_buffer) => tasks' = tasks]_vars

\* Enter was pressed on the content "  " with the start text "11:0": the
\* dialog closed and the rejected texts are still in the buffers.
C8_Witness ==
    /\ key = Key("Enter")
    /\ ~input_mode
    /\ input_buffer = <<32, 32>>
    /\ start_time_buffer = <<49, 49, 58, 48>>

(***************************************************************************)
(* The derived views (SpecQuery, SpecDisplay).                             *)
(***************************************************************************)
\* The indices a sequence of (index, task) pairs lists, in its order.
Indices(rows) == [i \in 1..Len(rows) |-> rows[i][1]]

\* C9: for every store and date D, tasks_for_date returns exactly the pairs
\* (i, tasks[i]) with tasks[i].date = D: each once, no other task, none
\* without a date, every index below the length, nothing when no task has
\* date D.  (The call takes &self: the store is as it was.)
C9_TasksForDateExact ==
    \A D \in Dates :
        LET rows == tasks_for_date(tasks, D)
            want == {i \in 0..(Len(tasks) - 1) : tasks[i + 1].date = Some(D)}
        IN  /\ \A r \in 1..Len(rows) :
                   /\ rows[r][1] \in want
                   /\ rows[r][2] = tasks[rows[r][1] + 1]
            /\ \A i \in want : Cardinality({r \in 1..Len(rows) : rows[r][1] = i}) = 1
            /\ want = {} => rows = << >>

\* A day key was handled on a store of three tasks: two of the current date,
\* around one without a date.
C9_Witness ==
    /\ key = Key("Right")
    /\ Len(tasks) = 3
    /\ tasks[1].date = Some(current_date)
    /\ tasks[2].date = None
    /\ tasks[3].date = Some(current_date)

\* C11: for every store and reference date T, overdue_tasks returns exactly
\* the pairs (i, tasks[i]) whose task has a date before T and is not
\* completed, in increasing index order and all of them (no cap): no task
\* without a date, whatever its completed flag, and none dated T or later.
C11_OverdueExact ==
    \A T \in Dates :
        LET rows == overdue_tasks(tasks, T)
            want == {i \in 0..(Len(tasks) - 1) :
                        /\ tasks[i + 1].date # None
                        /\ Unwrap(tasks[i + 1].date) < T
                        /\ ~tasks[i + 1].completed}
        IN  /\ Len(rows) = Cardinality(want)
            /\ {rows[r][1] : r \in 1..Len(rows)} = want
            /\ \A r \in 1..Len(rows) : rows[r][2] = tasks[rows[r][1] + 1]
            /\ \A q, r \in 1..Len(rows) : q < r => rows[q][1] < rows[r][1]

\* A day key was handled on a store of three tasks dated before the current
\* date: one not completed, one completed, one not completed; the query
\* lists the first and the third.
C11_Witness ==
    /\ \E k \in {Key("Right"), KeyChar(<<108>>)} : key = k
    /\ Len(tasks) = 3
    /\ \A i \in 1..3 : IsSome(tasks[i].date) /\ Unwrap(tasks[i].date) < current_date
    /\ ~tasks[1].completed /\ tasks[2].completed /\ ~tasks[3].completed
    /\ Indices(overdue_tasks(tasks, current_date)) = <<0, 2>>

\* The store with every end_time taken away.
WithoutEndTimes(ts) == [i \in 1..Len(ts) |-> [ts[i] EXCEPT !.end_time = None]]

\* C10: for every store and current date, the displayed list is a
\* permutation of tasks_for_date(current date) in which every task with a
\* start time precedes every task without one and the start times of the
\* timed tasks are non-decreasing; end_time has no influence on the order.
C10_DisplayOrder ==
    LET rows == current_tasks("Scheduled", tasks, current_date)
        unsorted == tasks_for_date(tasks, current_date)
    IN  /\ Len(rows) = Len(unsorted)
        /\ \A u \in 1..Len(unsorted) :
               Cardinality({r \in 1..Len(rows) : rows[r] = unsorted[u]}) = 1
        /\ \A i, j \in 1..Len(rows) :
               i < j =>
                   /\ IsSome(rows[j][2].start_time) => IsSome(rows[i][2].start_time)
                   /\ IsSome(rows[j][2].start_time) =>
                          Unwrap(rows[i][2].start_time) <= Unwrap(rows[j][2].start_time)
        /\ Indices(rows)
             = Indices(current_tasks("Scheduled", WithoutEndTimes(tasks), current_date))

\* A row key was handled on the store [A at 01:11, B at 01:01, C untimed with
\* an end time], all of the current date: the display order is B, A, C.
C10_Witness ==
    /\ key = Key("Down")
    /\ Len(tasks) = 3
    /\ \A i \in 1..3 : tasks[i].date = Some(current_date)
    /\ tasks[1].start_time = Some(71)
    /\ tasks[2].start_time = Some(61)
    /\ tasks[3].start_time = None
    /\ tasks[3].end_time = Some(61)
    /\ Indices(current_tasks(view_mode, tasks, current_date)) = <<1, 0, 2>>

(***************************************************************************)
(* The task list and the store (SpecStore).                                *)
(***************************************************************************)
\* The view has a row at the selection.
HasRow == view_mode = "Scheduled" /\ IsSome(SelectedRow)

\* The store index of the task shown at the selected row.
ShownIdx == Unwrap(SelectedRow)[1]

\* The store ts with the completed flag of the task at index i (from 0)
\* inverted and nothing else changed.
Flipped(ts, i) ==
    [k \in 1..Len(ts) |->
        IF k = i + 1
        THEN [content |-> ts[k].content, completed |-> ~ts[k].completed,
              date |-> ts[k].date, start_time |-> ts[k].start_time,
              end_time |-> ts[k].end_time]
        ELSE ts[k]]

\* C12: toggle on the selected row inverts the completed flag of exactly the
\* store task shown at that row: no other field, no other task, the order
\* and the selection stay; the same row then shows the same task, and a
\* second toggle gives back the original store; with no row at the
\* selection toggle changes nothing.
C12_ToggleFlipsShownTask ==
    [][(\E ok \in BOOLEAN : NormalToggle(ok)) =>
         IF HasRow
         THEN /\ ~panicked'
              /\ tasks' = Flipped(tasks, ShownIdx)
              /\ selected_task' = selected_task
              /\ LET after == Get(current_tasks(view_mode', tasks', current_date'),
                                  selected_task')
                 IN  /\ after # << >>
                     /\ after[1][1] = ShownIdx
                     /\ Flipped(tasks', after[1][1]) = tasks
         ELSE tasks' = tasks /\ selected_task' = selected_task]_vars

\* Space was pressed on the first row of date 1 of the loaded store, which
\* shows "b", the second task of the store: "b" is no longer completed.
C12_Witness ==
    /\ key = KeyChar(CharSpace)
    /\ current_date = 1
    /\ selected_task = 0
    /\ tasks = <<Task(CharA, FALSE, Some(1), None, None),
                 Task(<<98>>, FALSE, Some(1), Some(61), None)>>

\* C13: delete on the selected row removes exactly the store task shown at
\* that row: the sequence is one shorter, the tasks at smaller indices keep
\* their index, those at larger indices move down by one, none changes; with
\* no row at the selection delete changes nothing.
C13_DeleteRemovesShownTask ==
    [][(\E ok \in BOOLEAN : NormalDelete(ok)) =>
         IF HasRow
         THEN /\ ~panicked'
              /\ Len(tasks') = Len(tasks) - 1
              /\ \A i \in 0..(ShownIdx - 1) : tasks'[i + 1] = tasks[i + 1]
              /\ \A i \in (ShownIdx + 1)..(Len(tasks) - 1) : tasks'[i] = tasks[i + 1]
         ELSE tasks' = tasks]_vars

\* 'd' was pressed on the second row of date 1 of the loaded store, which
\* shows "a", the first task of the store: "b" moved down to index 0.
C13_Witness ==
    /\ key = KeyChar(<<100>>)
    /\ current_date = 1
    /\ selected_task = 0
    /\ tasks = <<Task(<<98>>, TRUE, Some(1), Some(61), None)>>

\* The text s without its leading and trailing whitespace.
Trimmed(s) ==
    LET inked == {i \in 1..Len(s) : s[i] \notin {9, 10, 11, 12, 13, 32}}
    IN  IF inked = {} THEN << >>
        ELSE SubSeq(s, CHOOSE i \in inked : \A j \in inked : i <= j,
                       CHOOSE i \in inked : \A j \in inked : j <= i)

\* C14: a save with non-blank content and no edit index appends exactly one
\* task, with the trimmed content, completed = false and the current date,
\* after the earlier tasks, which stay; with an edit index it keeps the
\* length and changes only content, start_time and end_time of the task at
\* that index: its completed flag, its date and every other task stay.
C14_SaveAppendsOrEditsInPlace ==
    [][(\E ok \in BOOLEAN : InputEnter(ok, MaxStoreTasks)) /\ ~Blank(input_buffer) =>
         /\ ~panicked'
         /\ IF editing_task_idx = << >>
            THEN /\ Len(tasks') = Len(tasks) + 1
                 /\ SubSeq(tasks', 1, Len(tasks)) = tasks
                 /\ tasks'[Len(tasks')].content = Trimmed(input_buffer)
                 /\ tasks'[Len(tasks')].completed = FALSE
                 /\ tasks'[Len(tasks')].date = <<current_date>>
            ELSE LET at == editing_task_idx[1] + 1
                 IN  /\ Len(tasks') = Len(tasks)
                     /\ \A k \in 1..Len(tasks) : k # at => tasks'[k] = tasks[k]
                     /\ tasks'[at].content = Trimmed(input_buffer)
                     /\ tasks'[at].completed = tasks[at].completed
                     /\ tasks'[at].date = tasks[at].date]_vars

\* Enter was pressed in the dialog and the store holds the loaded "a" edited
\* to "ad" and, after it, a task "d" of date 0 from 01:01, not completed.
C14_Witness ==
    /\ key = Key("Enter")
    /\ ~input_mode
    /\ current_date = 0
    /\ tasks = <<Task(<<97, 100>>, FALSE, Some(1), None, None),
                 Task(<<100>>, FALSE, Some(0), Some(61), None)>>

\* A step keeps the order of the store: the sequence is as it was, or has
\* one task changed in place, or has lost one task with the others in their
\* order, or has one more task at its end.
OrderKept(old, new) ==
    \/ /\ Len(new) = Len(old)
       /\ Cardinality({k \in 1..Len(old) : new[k] # old[k]}) <= 1
    \/ /\ Len(new) = Len(old) - 1
       /\ \E k \in 1..Len(old) :
              new = SubSeq(old, 1, k - 1) \o SubSeq(old, k + 1, Len(old))
    \/ /\ Len(new) = Len(old) + 1
       /\ SubSeq(new, 1, Len(old)) = old

\* A key that queries or sorts the store, moves the row or the day, switches
\* the view or opens the dialog.
ReadingKey ==
    \/ NormalUp \/ NormalDown \/ NormalLeft \/ NormalRight
    \/ NormalTab \/ NotesTab \/ NormalNew \/ NormalEdit

\* C15: across every key the store keeps insertion order: two tasks that
\* both remain keep their relative order, a new task is added at the end,
\* and the keys that query, sort, move the row or the day or switch the view
\* leave the stored sequence as it was.
C15_InsertionOrderKept ==
    [][/\ OrderKept(tasks, tasks')
       /\ ReadingKey => tasks' = tasks]_vars

\* Down was pressed on a store of two tasks, no longer the loaded one, that
\* the display shows in the other order.
C15_Witness ==
    /\ \E k \in {Key("Down"), KeyChar(<<106>>)} : key = k
    /\ Len(tasks) = 2
    /\ tasks \notin LoadedStoreTasks
    /\ Indices(current_tasks(view_mode, tasks, current_date)) = <<1, 0>>

(***************************************************************************)
(* Saving the store (SpecSave).                                            *)
(***************************************************************************)
\* The file d holds exactly the store (t, n).
Persisted(d, t, n) == d.whole /\ d.tasks = t /\ d.notes = n

\* C16: every key that changes the Store (the tasks or the Store's notes)
\* attempts a save in the same step, after the change: a save that succeeds
\* leaves the file equal to the Store as the key left it, and no step
\* changes the Store without a save.
C16_StoreChangeAttemptsSave ==
    [][tasks' # tasks \/ notes' # notes =>
         /\ last_save' \in {"ok", "failed"}
         /\ last_save' = "ok" => Persisted(disk', tasks', notes')]_vars

\* Ctrl+S was pressed after a task was added and a character typed into the
\* note: the save succeeded and the file holds both.
C16_Witness ==
    /\ key = KeyCtrlS
    /\ last_save = "ok"
    /\ Len(tasks) = 2
    /\ notes = CharA
    /\ Persisted(disk, tasks, notes)

\* C17: a failed save is swallowed.  The change made in memory is kept, the
\* mode and the selection move as after a save that succeeds, the loop goes
\* on (no abort, no quit), and a later save that succeeds writes the whole
\* Store of that moment, the changes whose own save failed included.
C17_FailedSaveIsSwallowed ==
    [][/\ last_save' = "failed" =>
            /\ ~panicked' /\ ~should_quit'
            /\ (\E ok \in BOOLEAN : NormalToggle(ok)) =>
                   /\ tasks' = Flipped(tasks, ShownIdx)
                   /\ selected_task' = selected_task
            /\ (\E ok \in BOOLEAN : NormalDelete(ok)) =>
                   /\ tasks' = SubSeq(tasks, 1, ShownIdx)
                                  \o SubSeq(tasks, ShownIdx + 2, Len(tasks))
                   /\ selected_task' = IF selected_task > 0 THEN selected_task - 1 ELSE 0
            /\ (\E ok \in BOOLEAN : InputEnter(ok, MaxSaveTasks)) =>
                   /\ WrittenTask(editing_task_idx, tasks').content = Trimmed(input_buffer)
                   /\ Len(tasks') = Len(tasks) + (IF editing_task_idx = << >> THEN 1 ELSE 0)
                   /\ ~input_mode'
                   /\ editing_task_idx' = << >>
                   /\ time_input_field' = 0
                   /\ input_buffer' = << >>
            /\ (\E ok \in BOOLEAN : NotesCtrlS(ok)) => notes' = notes_buffer
       /\ last_save' = "ok" => Persisted(disk', tasks', notes')]_vars

\* The save of an added task failed: the task is in the store, the dialog is
\* closed and the file still holds the loaded store.
C17_Witness ==
    /\ key = Key("Enter")
    /\ last_save = "failed"
    /\ ~input_mode
    /\ Len(tasks) = 2
    /\ disk.whole
    /\ disk.tasks \in LoadedSaveTasks

(***************************************************************************)
(* The line keys of the note (SpecNotes).                                  *)
(***************************************************************************)
\* Where the claim puts the cursor on Up from a line that has a line before
\* it: previous-line-start + min(col, previous-line-length).
UpExpected(buf, cur) ==
    LET line_start == LineStart(buf, cur)
        prev_line_start == LineStart(buf, line_start - 1)
        prev_line_length == (line_start - 1) - prev_line_start
    IN  prev_line_start + Min(cur - line_start, prev_line_length)

\* C21: Up with a newline before the cursor moves the cursor to
\* previous-line-start + min(col, previous-line-length), col being the
\* cursor minus the start of its line, also when the previous line is empty
\* or is the first line; the buffer is unchanged.
C21_UpKeepsColumn ==
    [][NotesUp /\ ~OnFirstLine(notes_buffer, notes_cursor) =>
         /\ ~panicked'
         /\ notes_cursor' = UpExpected(notes_buffer, notes_cursor)
         /\ notes_buffer' = notes_buffer]_vars

\* Up was pressed below the second line of "\n\na", an empty line: the
\* cursor is on that line, which only an Up from the third line gives.
C21_Witness ==
    /\ key = Key("Up")
    /\ ~panicked
    /\ notes_buffer = <<10, 10, 97>>
    /\ notes_cursor = 1

\* C22: Home moves the cursor to the start of its line: the offset after the
\* nearest newline before the cursor, or 0; the buffer is unchanged, and a
\* second Home leaves the cursor there.
C22_HomeGoesToLineStart ==
    [][NotesHome =>
         /\ ~panicked'
         /\ notes_cursor' = LineStart(notes_buffer, notes_cursor)
         /\ notes_buffer' = notes_buffer
         /\ home_cursor(notes_buffer', notes_cursor') = notes_cursor']_vars

\* Home was pressed on the second line of "a\na": the cursor is at 2.
C22_Witness ==
    /\ key = Key("Home")
    /\ ~panicked
    /\ notes_buffer = <<97, 10, 97>>
    /\ notes_cursor = 2

\* The offset of the first newline of buf at or after offset cur, or the
\* length of buf.
LineEnd(buf, cur) ==
    LET after == {p \in (cur + 1)..Len(buf) : buf[p] = 10}
    IN  IF after = {} THEN Len(buf)
        ELSE (CHOOSE p \in after : \A r \in after : p <= r) - 1

\* C23: End moves the cursor to the offset of the first newline at or after
\* the cursor, or to the length of the buffer; the buffer is unchanged, and
\* a second End leaves the cursor there.
C23_EndGoesToLineEnd ==
    [][NotesEnd =>
         /\ ~panicked'
         /\ notes_cursor' = LineEnd(notes_buffer, notes_cursor)
         /\ notes_buffer' = notes_buffer
         /\ end_cursor(notes_buffer', notes_cursor') = notes_cursor']_vars

\* End was pressed on the first line of "a\na": the cursor is at 1, before
\* the newline.
C23_Witness ==
    /\ key = Key("End")
    /\ ~panicked
    /\ notes_buffer = <<97, 10, 97>>
    /\ notes_cursor = 1

\* C27: in the Notes view outside input mode a character key without
\* Control inserts exactly that character at the cursor and changes nothing
\* else: it does not set should_quit, switch the view or change the tasks.
C27_CharKeyOnlyInserts ==
    [][Running /\ ~DrawPanics /\ InNotesBranch /\ key'.code = "Char" =>
         /\ notes_buffer' = SubSeq(notes_buffer, 1, notes_cursor) \o key'.ch
                               \o SubSeq(notes_buffer, notes_cursor + 1, Len(notes_buffer))
         /\ should_quit' = should_quit
         /\ view_mode' = view_mode
         /\ tasks' = tasks
         /\ notes' = notes]_vars

(***************************************************************************)
(* The dialog's buffers (SpecInput); the edit index and the selection      *)
(* (SpecStore).                                                            *)
(***************************************************************************)
\* C25: whenever the program is not in input mode, the content buffer and
\* the two time buffers are empty and time_input_field is 0: a newly opened
\* add dialog never starts with text left from an earlier add or edit.
C25_BuffersEmptyOutsideDialog ==
    ~input_mode =>
        /\ input_buffer = << >>
        /\ start_time_buffer = << >>
        /\ end_time_buffer = << >>
        /\ time_input_field = 0

\* C24: whenever editing_task_idx is Some(idx), the program is in input
\* mode, idx is below the length of the task sequence and is the index of
\* the task at the selected row, as when the edit started; as long as the
\* index stays set neither it nor the task sequence changes.
C24_EditIndexDenotesEditedTask ==
    /\ [](editing_task_idx # << >> =>
             /\ input_mode
             /\ editing_task_idx[1] < Len(tasks)
             /\ HasRow
             /\ ShownIdx = editing_task_idx[1])
    /\ [][editing_task_idx # << >> /\ editing_task_idx' # << >> =>
             editing_task_idx' = editing_task_idx /\ tasks' = tasks]_vars

\* 'e' was pressed on the first row of date 1 of the loaded store: the edit
\* index is 1, the store index of "b", and the dialog holds its texts.
C24_Witness ==
    /\ key = KeyChar(<<101>>)
    /\ editing_task_idx = <<1>>
    /\ input_mode
    /\ input_buffer = <<98>>
    /\ start_time_buffer = <<48, 49, 58, 48, 49>>

\* C26: after every key the selected row is valid for the view: 0 when the
\* displayed list is empty, below its length otherwise.
C26_SelectionValid ==
    LET n == Len(current_tasks(view_mode, tasks, current_date))
    IN  IF n = 0 THEN selected_task = 0 ELSE selected_task < n

\* 'd' was pressed on the second, last row of date 1, which showed "a": the
\* one row left shows "b" and the selection stepped back onto it.
C26_Witness ==
    /\ key = KeyChar(<<100>>)
    /\ view_mode = "Scheduled"
    /\ current_date = 1
    /\ Len(tasks) = 1
    /\ tasks[1].content = <<98>>
    /\ tasks[1].date = <<1>>
    /\ selected_task = 0

(***************************************************************************)
(* The view and the mode (SpecModes).                                      *)
(***************************************************************************)
\* C28: input mode is only ever on in the Scheduled view, and while the view
\* is Notes no key changes the task sequence: add, edit, toggle and delete
\* are reached from the Scheduled view only.
C28_TasksChangeInScheduledOnly ==
    /\ [](input_mode => view_mode = "Scheduled")
    /\ [][view_mode = "Notes" => tasks' = tasks]_vars

\* 'n' and 'd' were typed in the Notes view: they are in the note, no dialog
\* is open and the loaded task is still there.
C28_Witness ==
    /\ key = KeyChar(<<100>>)
    /\ view_mode = "Notes"
    /\ ~input_mode
    /\ notes_buffer = <<110, 100>>
    /\ tasks \in LoadedSaveTasks

====
